---- MODULE Spec2Model ----
(***************************************************************************)
(* MultiPing (src/MultiPing/cli.py): the background polling thread         *)
(* (ping_worker), the hot reload of the devices file (check_file_changes), *)
(* the render loops of main() and curses_main(), and the shutdown paths    *)
(* (quit key, SIGINT handler, bounded join, daemon threads).               *)
(*                                                                         *)
(* Threads interleave at the granularity of the statements that read or    *)
(* write the module globals hosts, host_names, results, running,           *)
(* devices_file and last_file_mtime.  Numbers with a fraction (latency in  *)
(* ms, packet loss in percent) are kept in tenths.  Python's None is the   *)
(* empty sequence and a present value v is <<v>>.                          *)
(***************************************************************************)
EXTENDS Integers, Sequences, FiniteSets, TLC

(***************************************************************************)
(* Bounds of the model.                                                    *)
(***************************************************************************)
\* how many times the environment rewrites or removes the devices file
MaxFileOps == 1
\* the height of the terminal (getmaxyx) in interactive mode
ScreenRows == 24
\* the longest host list given to the renderers on their own
MaxSortLen == 4
\* how far the clock of the live renderer on its own runs, in tenths of a
\* second
MaxClock == 12
\* the tallest terminal given to the full-screen renderer on its own
MaxHeight == 10

(***************************************************************************)
(* Values.                                                                 *)
(***************************************************************************)
None == <<>>

Some(v) == <<v>>

Range(s) == {s[i] : i \in 1..Len(s)}

\* the hosts of the model and the text of each (what the user typed)
Hosts == {"hA", "hB", "hC"}

HostText(h) ==
    CASE h = "hA" -> <<"1", "0", ".", "0", ".", "0", ".", "2">>
      [] h = "hB" -> <<"1", "0", ".", "0", ".", "0", ".", "1">>
      [] h = "hD" -> <<"1", "0", ".", "0", ".", "0", ".", "1", "0">>
      [] h = "hE" -> <<"1", ".", ".", "0", ".", "1">>
      [] h = "hF" -> <<"d", "b">>
      [] h = "hG" -> <<"1", ".", "0", ".", "1", ".", "0">>
      [] h = "hH" -> <<"1", ".", "0", ".", "0", ".", "2", "5", "6">>
      [] OTHER    -> <<"s", "r", "v">>

Digits == {"0", "1", "2", "3", "4", "5", "6", "7", "8", "9"}

DigitVal(c) ==
    CASE c = "0" -> 0 [] c = "1" -> 1 [] c = "2" -> 2 [] c = "3" -> 3
      [] c = "4" -> 4 [] c = "5" -> 5 [] c = "6" -> 6 [] c = "7" -> 7
      [] c = "8" -> 8 [] OTHER -> 9

(***************************************************************************)
(* ip_to_int and the display order sorted(hosts, key=ip_to_int).           *)
(***************************************************************************)
\* str.split('.'): the pieces between the dots, empty pieces included
RECURSIVE SplitDots(_)
SplitDots(s) ==
    IF \A i \in 1..Len(s) : s[i] # "."
    THEN <<s>>
    ELSE LET k == CHOOSE i \in 1..Len(s) :
                      s[i] = "." /\ \A j \in 1..(i - 1) : s[j] # "."
         IN  <<SubSeq(s, 1, k - 1)>> \o SplitDots(SubSeq(s, k + 1, Len(s)))

\* int(piece) of a piece made of digits
RECURSIVE IntOf(_)
IntOf(s) ==
    IF Len(s) = 0 THEN 0
    ELSE 10 * IntOf(SubSeq(s, 1, Len(s) - 1)) + DigitVal(s[Len(s)])

\* ip_to_int without the shifts of line 71: the sum of the four parts
ip_to_int_sum(ip) ==
    LET looksIp == /\ \A i \in 1..Len(ip) : ip[i] \in Digits \cup {"."}
                   /\ Cardinality({i \in 1..Len(ip) : ip[i] = "."}) = 3
        parts   == SplitDots(ip)
    IN  IF looksIp /\ \A i \in 1..Len(parts) : Len(parts[i]) > 0
        THEN [inf |-> FALSE,
              v   |-> IntOf(parts[1]) + IntOf(parts[2]) + IntOf(parts[3])
                      + IntOf(parts[4])]
        ELSE [inf |-> TRUE, v |-> 0]

\* the sort key: [inf |-> TRUE] is float('inf')
ip_to_int(ip) ==
    LET looksIp == /\ \A i \in 1..Len(ip) : ip[i] \in Digits \cup {"."}
                   /\ Cardinality({i \in 1..Len(ip) : ip[i] = "."}) = 3
        parts   == SplitDots(ip)
    IN  IF looksIp /\ \A i \in 1..Len(parts) : Len(parts[i]) > 0
        THEN [inf |-> FALSE,
              v   |-> IntOf(parts[1]) * 16777216 + IntOf(parts[2]) * 65536
                      + IntOf(parts[3]) * 256 + IntOf(parts[4])]
        ELSE [inf |-> TRUE, v |-> 0]

KeyLess(a, b) == ~a.inf /\ (b.inf \/ a.v < b.v)

\* insert h after every element whose key is not greater (stable)
RECURSIVE InsertSorted(_, _)
InsertSorted(h, s) ==
    IF Len(s) = 0 THEN <<h>>
    ELSE IF KeyLess(ip_to_int(HostText(h)), ip_to_int(HostText(s[1])))
         THEN <<h>> \o s
         ELSE <<s[1]>> \o InsertSorted(h, Tail(s))

RECURSIVE sorted(_)
sorted(s) ==
    IF Len(s) = 0 THEN <<>>
    ELSE InsertSorted(s[Len(s)], sorted(SubSeq(s, 1, Len(s) - 1)))

(***************************************************************************)
(* The devices file and read_hosts_from_file.                              *)
(***************************************************************************)
Comment == [kind |-> "comment", name |-> "", host |-> ""]

Blank == [kind |-> "blank", name |-> "", host |-> ""]

Bare(h) == [kind |-> "bare", name |-> "", host |-> h]

Named(n, h) == [kind |-> "named", name |-> n, host |-> h]

\* the contents the devices file can have
FileAB == <<Comment, Named("alpha", "hA"), Blank, Bare("hB")>>

FileBC == <<Bare("hB"), Bare("hC")>>

FileC == <<Bare("hC")>>

FileABrenamed == <<Named("beta", "hA"), Bare("hB")>>

FileAA == <<Named("alpha", "hA"), Named("beta", "hA")>>

FileEmpty == <<Comment, Blank>>

InitialContents == {FileAB, FileAA}

Contents == {FileAB, FileBC, FileC, FileABrenamed, FileAA, FileEmpty}

\* the lines that are neither blank nor a comment
EntryLines(lines) == SelectSeq(lines, LAMBDA l : l.kind \in {"bare", "named"})

\* hosts.append(host) for each entry line, in file order
ParsedHosts(lines) ==
    LET e == EntryLines(lines) IN [i \in 1..Len(e) |-> e[i].host]

\* host_names[host] = name for each name:host line; a later line overwrites
ParsedNames(lines) ==
    LET e     == EntryLines(lines)
        named == {i \in 1..Len(e) : e[i].kind = "named"}
        last(h) == CHOOSE i \in named :
                      e[i].host = h /\ \A j \in named : e[j].host = h => j <= i
    IN  [h \in {e[i].host : i \in named} |-> e[last(h)].name]

\* ok = FALSE is sys.exit(1): the file cannot be opened or holds no host
read_hosts_from_file(f) ==
    IF ~f.exists \/ ~f.readable \/ Len(ParsedHosts(f.lines)) = 0
    THEN [ok |-> FALSE, hosts |-> <<>>, host_names |-> <<>>]
    ELSE [ok |-> TRUE, hosts |-> ParsedHosts(f.lines),
          host_names |-> ParsedNames(f.lines)]

\* list(dict.fromkeys(hosts)): the first occurrence of each host, in order
RECURSIVE Dedupe(_)
Dedupe(s) ==
    IF Len(s) = 0 THEN <<>>
    ELSE LET front == Dedupe(SubSeq(s, 1, Len(s) - 1))
         IN  IF s[Len(s)] \in Range(front) THEN front
             ELSE Append(front, s[Len(s)])

\* d.update(e) on dictionaries
DictUpdate(d, e) ==
    [k \in DOMAIN d \cup DOMAIN e |-> IF k \in DOMAIN e THEN e[k] ELSE d[k]]

DictSet(d, k, v) ==
    [x \in DOMAIN d \cup {k} |-> IF x = k THEN v ELSE d[x]]

DictDel(d, k) ==
    [x \in DOMAIN d \ {k} |-> d[x]]

EmptyDict == [x \in {} |-> 0]

(***************************************************************************)
(* ping_host.  What the outside world answers to one probe is obs:         *)
(* resolves (gethostbyname succeeds), launches (Popen succeeds),           *)
(* returncode, time (the last time= value of stdout, if any), loss (the    *)
(* "% packet loss" figure of stdout, if any), stderr.                      *)
(***************************************************************************)
\* ping_host without the resolution of lines 186-191
ping_host_noresolve(host, obs) ==
    LET result == [host |-> host, status |-> "unknown", latency |-> None,
                   message |-> "", packet_loss |-> 1000]
    IN  IF ~obs.launches
        THEN [result EXCEPT !.status = "error", !.message = "OSError"]
        ELSE IF obs.returncode = 0
        THEN LET r1 == [result EXCEPT !.status = "up", !.latency = obs.time]
             IN  IF obs.loss = None THEN r1
                 ELSE [r1 EXCEPT !.packet_loss = obs.loss[1]]
        ELSE [result EXCEPT !.status = "down",
                            !.message = "Host is unreachable"]

\* ping_host without the else branch of lines 225-231
ping_host_noelse(host, obs) ==
    LET result == [host |-> host, status |-> "unknown", latency |-> None,
                   message |-> "", packet_loss |-> 1000]
    IN  IF ~obs.resolves
        THEN [result EXCEPT !.status = "error",
                            !.message = "Cannot resolve hostname"]
        ELSE IF ~obs.launches
        THEN [result EXCEPT !.status = "error", !.message = "OSError"]
        ELSE IF obs.returncode = 0
        THEN [result EXCEPT !.status = "up", !.latency = obs.time]
        ELSE result

ping_host(host, obs) ==
    LET result == [host |-> host, status |-> "unknown", latency |-> None,
                   message |-> "", packet_loss |-> 1000]
    IN  IF ~obs.resolves
        THEN [result EXCEPT !.status = "error",
                            !.message = "Cannot resolve hostname"]
        ELSE IF ~obs.launches
        THEN [result EXCEPT !.status = "error", !.message = "OSError"]
        ELSE IF obs.returncode = 0
        THEN LET r1 == [result EXCEPT !.status = "up", !.latency = obs.time]
             IN  IF obs.loss = None THEN r1
                 ELSE LET r2 == [r1 EXCEPT !.packet_loss = obs.loss[1]]
                      IN  IF r2.packet_loss = 1000
                          THEN [r2 EXCEPT !.status = "down"]
                          ELSE r2
        ELSE [result EXCEPT !.status = "down",
                            !.message = IF obs.stderr # "" THEN obs.stderr
                                        ELSE "Host is unreachable"]

\* the answers the polling thread meets in the model of the whole program
ObsUp == [resolves |-> TRUE, launches |-> TRUE, returncode |-> 0,
          time |-> Some(123), loss |-> Some(0), stderr |-> ""]

ObsUnresolved == [resolves |-> FALSE, launches |-> TRUE, returncode |-> 0,
                  time |-> None, loss |-> None, stderr |-> ""]

WorkerObs == {ObsUp, ObsUnresolved}

(***************************************************************************)
(* The state of the program.                                               *)
(***************************************************************************)
VARIABLES
    args,             \* the parsed command line: mode, file (-f given), hosts
    file,             \* the devices file on disk: exists, readable, lines, mtime
    fileOps,          \* how many times the environment changed the file
    hosts,            \* global hosts
    host_names,       \* global host_names
    results,          \* global results: host -> the dictionary ping_host built
    running,          \* global running (the stop flag: FALSE is stopped)
    devices_file,     \* global devices_file: None or the path
    last_file_mtime,  \* global last_file_mtime
    display_mode,     \* global display_mode
    handler,          \* signal.signal(SIGINT, sigint_handler) was called
    live,             \* globals _live_header_printed and len(_device_lines)
    wpc,              \* per polling thread: where it is in ping_worker
    wloc,             \* per polling thread: its local variables
    mpc,              \* where the main thread is
    mloc,             \* the main thread's local variables
    proc,             \* the process: alive, code (exit code)
    hist              \* what happened so far (read by the properties only)

vars == <<args, file, fileOps, hosts, host_names, results, running,
          devices_file, last_file_mtime, display_mode, handler, live, wpc,
          wloc, mpc, mloc, proc, hist>>

globals == <<hosts, host_names, results, running, devices_file,
             last_file_mtime, display_mode, handler, live>>

\* worker 1 is started by curses_main, worker 2 by main
Workers == {1, 2}

Modes == {"simple", "detailed", "compact", "live", "curses"}

DevicesPath == <<"devices.txt">>

\* threading.Thread(...) without daemon=True
NonDaemon == FALSE

\* threading.Thread(..., daemon=True)
Daemon == TRUE

NoLocals ==
    [host_list |-> <<>>, current_hosts |-> <<>>, i |-> 0, current_mtime |-> 0,
     new_host_names |-> EmptyDict, removed_hosts |-> {}]

MainIdle ==
    [key |-> "", passes |-> 0, sum |-> 0, di_used |-> 0, di_pos |-> 0,
     sorted_hosts |-> <<>>, row |-> 0]

NoHistory ==
    [cause |-> [w \in Workers |-> ""], stopProbes |-> [w \in Workers |-> 0],
     fresh |-> [w \in Workers |-> FALSE], quit |-> FALSE,
     interrupted |-> FALSE, joinedAfterStop |-> FALSE, mainError |-> "",
     probe |-> None, lastWrite |-> None, table |-> None, outs |-> {},
     frameError |-> FALSE, cursor |-> 0]

Init ==
    /\ \E m \in Modes :
           \/ \E c \in InitialContents :
                  /\ args = [mode |-> m, file |-> TRUE, hosts |-> <<>>]
                  /\ file = [exists |-> TRUE, readable |-> TRUE, lines |-> c,
                             mtime |-> 1]
           \/ /\ args = [mode |-> m, file |-> FALSE,
                         hosts |-> <<"hA", "hB", "hA">>]
              /\ file = [exists |-> FALSE, readable |-> TRUE,
                         lines |-> <<>>, mtime |-> 0]
    /\ fileOps = 0
    /\ hosts = <<>>
    /\ host_names = EmptyDict
    /\ results = EmptyDict
    /\ running = TRUE
    /\ devices_file = None
    /\ last_file_mtime = 0
    /\ display_mode = "simple"
    /\ handler = FALSE
    /\ live = [header_printed |-> FALSE, device_lines |-> 0]
    /\ wpc = [w \in Workers |-> "idle"]
    /\ wloc = [w \in Workers |-> NoLocals]
    /\ mpc = "main"
    /\ mloc = MainIdle
    /\ proc = [alive |-> TRUE, code |-> 0]
    /\ hist = NoHistory

(***************************************************************************)
(* The environment: somebody rewrites the devices file (its modification   *)
(* time advances) or removes it.                                           *)
(***************************************************************************)
NotFresh == [hist EXCEPT !.fresh = [w \in Workers |-> FALSE]]

\* a new readable file with any of the contents, or (c = the old lines,
\* r = FALSE) a new file the process may not read
WriteFile ==
    /\ args.file /\ proc.alive /\ fileOps < MaxFileOps
    /\ \E c \in Contents, r \in BOOLEAN :
           /\ r \/ c = file.lines
           /\ file' = [exists |-> TRUE, readable |-> r, lines |-> c,
                       mtime |-> file.mtime + 1]
    /\ fileOps' = fileOps + 1
    /\ hist' = NotFresh
    /\ UNCHANGED <<args, globals, wpc, wloc, mpc, mloc, proc>>

RemoveFile ==
    /\ args.file /\ proc.alive /\ fileOps < MaxFileOps /\ file.exists
    /\ file' = [file EXCEPT !.exists = FALSE]
    /\ fileOps' = fileOps + 1
    /\ hist' = NotFresh
    /\ UNCHANGED <<args, globals, wpc, wloc, mpc, mloc, proc>>

(***************************************************************************)
(* ping_worker and check_file_changes, one polling thread w.               *)
(***************************************************************************)
Dead == {"raised", "returned"}

WStep(w, pc, loc) ==
    /\ wpc' = [wpc EXCEPT ![w] = pc]
    /\ wloc' = [wloc EXCEPT ![w] = loc]

\* the thread ends with an uncaught exception (threading prints it or, for
\* SystemExit, stays silent); the process lives on
WRaise(w, exc) ==
    /\ WStep(w, "raised", NoLocals)
    /\ hist' = [hist EXCEPT !.cause[w] = exc]

\* line 243: while running
W_while(w) ==
    /\ proc.alive /\ wpc[w] = "while"
    /\ WStep(w, IF running THEN "exists" ELSE "returned",
             [NoLocals EXCEPT !.host_list = wloc[w].host_list])
    /\ UNCHANGED <<args, file, fileOps, globals, mpc, mloc, proc, hist>>

\* line 103: if not devices_file or not os.path.exists(devices_file): return
W_exists(w) ==
    /\ proc.alive /\ wpc[w] = "exists"
    /\ WStep(w, IF devices_file = None \/ ~file.exists THEN "current"
                ELSE "getmtime", wloc[w])
    /\ hist' = [hist EXCEPT !.fresh[w] = TRUE]
    /\ UNCHANGED <<args, file, fileOps, globals, mpc, mloc, proc>>

\* lines 106-111 and 136-138: getmtime raises OSError when the file is gone
\* (ignored); otherwise compare with last_file_mtime
W_getmtime(w) ==
    /\ proc.alive /\ wpc[w] = "getmtime"
    /\ IF file.exists /\ file.mtime > last_file_mtime
       THEN WStep(w, "read", [wloc[w] EXCEPT !.current_mtime = file.mtime])
       ELSE WStep(w, "current", wloc[w])
    /\ UNCHANGED <<args, file, fileOps, globals, mpc, mloc, proc, hist>>

\* lines 112-117: remember the mtime, parse the file (sys.exit(1) inside
\* read_hosts_from_file raises SystemExit in this thread), compare, and
\* assign hosts when the content differs
W_read(w) ==
    /\ proc.alive /\ wpc[w] = "read"
    /\ last_file_mtime' = wloc[w].current_mtime
    /\ LET r == read_hosts_from_file(file)
       IN  IF ~r.ok
           THEN /\ WRaise(w, "SystemExit")
                /\ UNCHANGED <<hosts>>
           ELSE IF r.hosts # hosts \/ r.host_names # host_names
           THEN /\ hosts' = r.hosts
                /\ WStep(w, "names",
                         [wloc[w] EXCEPT !.new_host_names = r.host_names])
                /\ UNCHANGED hist
           ELSE /\ WStep(w, "current", wloc[w])
                /\ UNCHANGED <<hosts, hist>>
    /\ UNCHANGED <<args, file, fileOps, host_names, results, running,
                   devices_file, display_mode, handler, live, mpc, mloc, proc>>

\* line 118: host_names = new_host_names
W_names(w) ==
    /\ proc.alive /\ wpc[w] = "names"
    /\ host_names' = wloc[w].new_host_names
    /\ WStep(w, "removed", wloc[w])
    /\ UNCHANGED <<args, file, fileOps, hosts, results, running, devices_file,
                   last_file_mtime, display_mode, handler, live, mpc, mloc, proc,
                   hist>>

\* lines 121-123: removed_hosts = set(results.keys()) - set(hosts)
W_removed(w) ==
    /\ proc.alive /\ wpc[w] = "removed"
    /\ LET removed == DOMAIN results \ Range(hosts)
       IN  WStep(w, IF removed = {} THEN "print" ELSE "del",
                 [wloc[w] EXCEPT !.removed_hosts = removed])
    /\ UNCHANGED <<args, file, fileOps, globals, mpc, mloc, proc, hist>>

\* lines 125-126: for host in removed_hosts: del results[host]
\* (KeyError when the key is no longer there)
W_del(w) ==
    /\ proc.alive /\ wpc[w] = "del"
    /\ \E host \in wloc[w].removed_hosts :
           IF host \in DOMAIN results
           THEN /\ results' = DictDel(results, host)
                /\ LET rest == wloc[w].removed_hosts \ {host}
                   IN  WStep(w, IF rest = {} THEN "print" ELSE "del",
                             [wloc[w] EXCEPT !.removed_hosts = rest])
                /\ UNCHANGED hist
           ELSE /\ WRaise(w, "KeyError")
                /\ UNCHANGED results
    /\ UNCHANGED <<args, file, fileOps, hosts, host_names, running,
                   devices_file, last_file_mtime, display_mode, handler, live, mpc,
                   mloc, proc>>

\* lines 129-134: the notification; line 132 reads added_hosts, a name that
\* is assigned nowhere, and raises NameError
W_print(w) ==
    /\ proc.alive /\ wpc[w] = "print"
    /\ WRaise(w, "NameError")
    /\ UNCHANGED <<args, file, fileOps, globals, mpc, mloc, proc>>

\* line 248: current_hosts = hosts if hosts else host_list
W_current(w) ==
    /\ proc.alive /\ wpc[w] = "current"
    /\ WStep(w, "for",
             [NoLocals EXCEPT !.host_list = wloc[w].host_list,
                              !.current_hosts = IF hosts # <<>> THEN hosts
                                                ELSE wloc[w].host_list,
                              !.i = 1])
    /\ UNCHANGED <<args, file, fileOps, globals, mpc, mloc, proc, hist>>

\* W_for without "if not running: break" (lines 251-252)
W_for_nobreak(w) ==
    /\ proc.alive /\ wpc[w] = "for"
    /\ IF wloc[w].i <= Len(wloc[w].current_hosts)
       THEN WStep(w, "ping", wloc[w])
       ELSE WStep(w, "while", wloc[w])
    /\ UNCHANGED <<args, file, fileOps, globals, mpc, mloc, proc, hist>>

\* lines 250-252 and 258: the next host, or break when running is cleared,
\* then time.sleep(0.1) and back to the while
W_for(w) ==
    /\ proc.alive /\ wpc[w] = "for"
    /\ IF wloc[w].i <= Len(wloc[w].current_hosts) /\ running
       THEN WStep(w, "ping", wloc[w])
       ELSE WStep(w, "while", wloc[w])
    /\ UNCHANGED <<args, file, fileOps, globals, mpc, mloc, proc, hist>>

\* lines 254-255: result = ping_host(host); results[host] = result
W_ping(w) ==
    /\ proc.alive /\ wpc[w] = "ping"
    /\ \E obs \in WorkerObs :
           LET host == wloc[w].current_hosts[wloc[w].i]
           IN  results' = DictSet(results, host, ping_host(host, obs))
    /\ WStep(w, "for", [wloc[w] EXCEPT !.i = @ + 1])
    /\ hist' = [hist EXCEPT !.stopProbes[w] =
                                IF running \/ @ = 2 THEN @ ELSE @ + 1]
    /\ UNCHANGED <<args, file, fileOps, hosts, host_names, running,
                   devices_file, last_file_mtime, display_mode, handler, live, mpc,
                   mloc, proc>>

Worker(w) ==
    \/ W_while(w) \/ W_exists(w) \/ W_getmtime(w) \/ W_read(w) \/ W_names(w)
    \/ W_removed(w) \/ W_del(w) \/ W_print(w) \/ W_current(w) \/ W_for(w)
    \/ W_ping(w)

(***************************************************************************)
(* The renderers, as far as they read the shared globals: the test         *)
(* "if results", the three counting passes sum(1 for r in results.values() *)
(* if ...), sorted(hosts, key=ip_to_int), and per row "host in results"    *)
(* followed by results[host].  An iterator over a dictionary remembers the *)
(* dictionary's size (di_used) and raises RuntimeError on the next step    *)
(* after the size changed.                                                 *)
(***************************************************************************)
\* lines 285-287, 319-321, 351-353, 485-487, 525-527
NumSums == 3
\* line 298: sorted_hosts[:5]
SimpleShown == 5
\* line 364: sorted_hosts[:3]
CompactShown == 3
\* line 549: row = 5
FirstRow == 5

Prefix(s, n) == SubSeq(s, 1, IF n < Len(s) THEN n ELSE Len(s))

Max0(n) == IF n < 0 THEN 0 ELSE n

\* the hosts whose rows a renderer goes through
RowsShown(mode) ==
    LET s == sorted(hosts)
    IN  CASE mode = "simple"  -> Prefix(s, SimpleShown)
          [] mode = "compact" -> Prefix(s, CompactShown)
          [] mode = "live"    -> Prefix(s, live.device_lines)
          [] mode = "curses"  -> Prefix(s, Max0(ScreenRows - 2 - FirstRow))
          [] OTHER            -> s

MStep(pc, loc) ==
    /\ mpc' = pc
    /\ mloc' = loc

LoopTop == IF display_mode = "curses" THEN "c_while" ELSE "while"

\* the renderer returns; time.sleep(refresh_rate); back to the while
EndPass ==
    IF mloc.passes > 1
    THEN MStep("r_begin", [MainIdle EXCEPT !.passes = mloc.passes - 1])
    ELSE MStep(LoopTop, MainIdle)

\* an exception nothing catches leaves the main thread: traceback, exit code 1
MainRaise(exc) ==
    /\ MStep("finished", MainIdle)
    /\ proc' = [proc EXCEPT !.code = 1]
    /\ hist' = [hist EXCEPT !.mainError = exc]

StartSum(n) ==
    MStep("r_sum", [mloc EXCEPT !.sum = n,
                                !.di_used = Cardinality(DOMAIN results),
                                !.di_pos = 0])

StartRows ==
    MStep("r_row", [mloc EXCEPT !.sum = 0, !.di_used = 0, !.di_pos = 0,
                                !.sorted_hosts = RowsShown(display_mode),
                                !.row = 1])

\* the first statements of a renderer, up to the test of results
R_begin ==
    /\ proc.alive /\ mpc = "r_begin"
    /\ CASE display_mode \in {"simple", "detailed", "compact"} ->
              \* lines 284, 318, 350: if results
              /\ IF DOMAIN results = {} THEN EndPass ELSE StartSum(1)
              /\ UNCHANGED live
         [] display_mode = "live" ->
              IF ~live.header_printed
              THEN \* lines 394-420: the header and one WAITING row per host
                   /\ live' = [header_printed |-> TRUE,
                               device_lines |-> Len(hosts)]
                   /\ EndPass
              ELSE \* lines 423-430: at most one update per 0.5 s
                   /\ \E due \in BOOLEAN :
                          IF due /\ DOMAIN results # {} THEN StartRows
                          ELSE EndPass
                   /\ UNCHANGED live
         [] OTHER ->
              \* lines 512-538; a curses.error anywhere in the frame is
              \* swallowed at line 621 and the frame is skipped
              /\ \E drawn \in BOOLEAN :
                     IF ~drawn THEN EndPass
                     ELSE IF DOMAIN results # {} THEN StartSum(1)
                     ELSE StartRows
              /\ UNCHANGED live
    /\ UNCHANGED <<args, file, fileOps, hosts, host_names, results, running,
                   devices_file, last_file_mtime, display_mode, handler, wpc,
                   wloc, proc, hist>>

\* one step of the generator inside sum(...)
R_sum ==
    /\ proc.alive /\ mpc = "r_sum"
    /\ IF Cardinality(DOMAIN results) # mloc.di_used
       THEN MainRaise("RuntimeError")
       ELSE /\ IF mloc.di_pos < mloc.di_used
               THEN MStep("r_sum", [mloc EXCEPT !.di_pos = @ + 1])
               ELSE IF mloc.sum < NumSums THEN StartSum(mloc.sum + 1)
               ELSE IF display_mode = "live" THEN EndPass
               ELSE StartRows
            /\ UNCHANGED <<proc, hist>>
    /\ UNCHANGED <<args, file, fileOps, globals, wpc, wloc>>

\* lines 300, 331, 366, 444, 560: if host in results
R_row ==
    /\ proc.alive /\ mpc = "r_row"
    /\ IF mloc.row > Len(mloc.sorted_hosts)
       THEN IF display_mode = "live" THEN StartSum(1) ELSE EndPass
       ELSE IF mloc.sorted_hosts[mloc.row] \in DOMAIN results
       THEN MStep("r_get", mloc)
       ELSE MStep("r_row", [mloc EXCEPT !.row = @ + 1])
    /\ UNCHANGED <<args, file, fileOps, globals, wpc, wloc, proc, hist>>

\* lines 301, 332, 367, 445, 561: results[host]
R_get ==
    /\ proc.alive /\ mpc = "r_get"
    /\ IF mloc.sorted_hosts[mloc.row] \in DOMAIN results
       THEN /\ MStep("r_row", [mloc EXCEPT !.row = @ + 1])
            /\ UNCHANGED <<proc, hist>>
       ELSE MainRaise("KeyError")
    /\ UNCHANGED <<args, file, fileOps, globals, wpc, wloc>>

(***************************************************************************)
(* main() and curses_main(): the main thread.                              *)
(***************************************************************************)
\* lines 735-748: the arguments are parsed, display_mode = args.mode
M_main ==
    /\ proc.alive /\ mpc = "main"
    /\ display_mode' = args.mode
    /\ MStep(IF args.mode = "curses" THEN "wrapper" ELSE "load", mloc)
    /\ UNCHANGED <<args, file, fileOps, hosts, host_names, results, running,
                   devices_file, last_file_mtime, handler, live, wpc, wloc,
                   proc, hist>>

\* M_wrapper without the except clause of lines 755-758: the curses.error
\* leaves main
M_wrapper_noexcept ==
    /\ proc.alive /\ mpc = "wrapper"
    /\ \E tty \in BOOLEAN :
           IF tty
           THEN MStep("c_load", mloc) /\ UNCHANGED proc
           ELSE MStep("finished", MainIdle) /\ proc' = [proc EXCEPT !.code = 1]
    /\ UNCHANGED <<args, file, fileOps, hosts, host_names, results, running,
                   devices_file, last_file_mtime, display_mode, handler, live,
                   wpc, wloc, hist>>

\* lines 753-758: wrapper(curses_main) sets the terminal up and calls
\* curses_main, or raises curses.error and main falls back to live mode
M_wrapper ==
    /\ proc.alive /\ mpc = "wrapper"
    /\ \E tty \in BOOLEAN :
           IF tty
           THEN MStep("c_load", mloc) /\ UNCHANGED display_mode
           ELSE MStep("load", mloc) /\ display_mode' = "live"
    /\ UNCHANGED <<args, file, fileOps, hosts, host_names, results, running,
                   devices_file, last_file_mtime, handler, live, wpc, wloc,
                   proc, hist>>

\* sys.exit(1) of read_hosts_from_file in the main thread
MainExit1 ==
    /\ MStep("finished", MainIdle)
    /\ proc' = [proc EXCEPT !.code = 1]

\* curses_main, lines 656-676: devices_file and last_file_mtime are declared
\* global here (line 638); no other thread runs yet
M_c_load ==
    /\ proc.alive /\ mpc = "c_load"
    /\ IF args.file
       THEN LET r == read_hosts_from_file(file)
            IN  /\ devices_file' = DevicesPath
                /\ IF r.ok
                   THEN /\ hosts' = Dedupe(r.hosts)
                        /\ host_names' = DictUpdate(host_names, r.host_names)
                        /\ last_file_mtime' = file.mtime
                        /\ MStep("c_start", mloc)
                        /\ UNCHANGED proc
                   ELSE /\ MainExit1
                        /\ UNCHANGED <<hosts, host_names, last_file_mtime>>
       ELSE /\ hosts' = Dedupe(args.hosts)
            /\ MStep("c_start", mloc)
            /\ UNCHANGED <<devices_file, host_names, last_file_mtime, proc>>
    /\ UNCHANGED <<args, file, fileOps, results, running, display_mode,
                   handler, live, wpc, wloc, hist>>

StartWorker(w) ==
    /\ wpc' = [wpc EXCEPT ![w] = "while"]
    /\ wloc' = [wloc EXCEPT ![w] = [NoLocals EXCEPT !.host_list = hosts]]

\* lines 685-689: the SIGINT handler, then the polling thread
M_c_start ==
    /\ proc.alive /\ mpc = "c_start"
    /\ handler' = TRUE
    /\ StartWorker(1)
    /\ mpc' = "c_while"
    /\ UNCHANGED <<args, file, fileOps, hosts, host_names, results, running,
                   devices_file, last_file_mtime, display_mode, live, mloc,
                   proc, hist>>

\* line 692: while running
M_c_while ==
    /\ proc.alive /\ mpc = "c_while"
    /\ MStep(IF running THEN "c_getch" ELSE "c_cleanup", mloc)
    /\ UNCHANGED <<args, file, fileOps, globals, wpc, wloc, proc, hist>>

\* lines 694-711: q breaks out of the loop; r and KEY_RESIZE draw one more
\* frame before the regular one; any other key or no key draws one frame
M_c_getch ==
    /\ proc.alive /\ mpc = "c_getch"
    /\ \E key \in {"none", "q", "r"} :
           CASE key = "q" -> /\ MStep("c_cleanup", mloc)
                             /\ hist' = [hist EXCEPT !.quit = TRUE]
             [] key = "r" -> /\ MStep("r_begin", [mloc EXCEPT !.passes = 2])
                             /\ UNCHANGED hist
             [] OTHER     -> /\ MStep("r_begin", [mloc EXCEPT !.passes = 1])
                             /\ UNCHANGED hist
    /\ UNCHANGED <<args, file, fileOps, globals, wpc, wloc, proc>>

\* worker.join(timeout=1.0) returns when the thread has ended or when the
\* second is over, whichever comes first
Join(w) == TRUE

\* lines 720-725: the cleanup of curses_main and the bounded join; then
\* curses_main returns, wrapper returns, and main goes on at line 764
M_c_cleanup ==
    /\ proc.alive /\ mpc = "c_cleanup"
    /\ Join(1)
    /\ MStep("load", mloc)
    /\ hist' = [hist EXCEPT !.joinedAfterStop = @ \/ ~running]
    /\ UNCHANGED <<args, file, fileOps, globals, wpc, wloc, proc>>

\* main, lines 764-781: devices_file and last_file_mtime are not declared
\* global in main (line 735), so the assignments of lines 765 and 771 make
\* locals; hosts and host_names are the globals
M_load ==
    /\ proc.alive /\ mpc = "load"
    /\ IF args.file
       THEN LET r == read_hosts_from_file(file)
            IN  IF r.ok
                THEN /\ hosts' = r.hosts
                     /\ host_names' = DictUpdate(host_names, r.host_names)
                     /\ MStep("dedupe", mloc)
                     /\ UNCHANGED proc
                ELSE /\ MainExit1
                     /\ UNCHANGED <<hosts, host_names>>
       ELSE /\ hosts' = args.hosts
            /\ MStep("dedupe", mloc)
            /\ UNCHANGED <<host_names, proc>>
    /\ UNCHANGED <<args, file, fileOps, results, running, devices_file,
                   last_file_mtime, display_mode, handler, live, wpc, wloc,
                   hist>>

\* line 784: hosts = list(dict.fromkeys(hosts))
M_dedupe ==
    /\ proc.alive /\ mpc = "dedupe"
    /\ hosts' = Dedupe(hosts)
    /\ MStep("start", mloc)
    /\ UNCHANGED <<args, file, fileOps, host_names, results, running,
                   devices_file, last_file_mtime, display_mode, handler, live,
                   wpc, wloc, proc, hist>>

\* lines 787-791: the SIGINT handler, then the polling thread
M_start ==
    /\ proc.alive /\ mpc = "start"
    /\ handler' = TRUE
    /\ StartWorker(2)
    /\ mpc' = "while"
    /\ UNCHANGED <<args, file, fileOps, hosts, host_names, results, running,
                   devices_file, last_file_mtime, display_mode, live, mloc,
                   proc, hist>>

\* lines 794-813: while running: the renderer of display_mode (none of the
\* four branches is taken when display_mode is 'curses'), then the sleep;
\* after the loop worker.join(timeout=1.0) and main returns
M_while ==
    /\ proc.alive /\ mpc = "while"
    /\ IF ~running
       THEN /\ Join(2)
            /\ MStep("finished", mloc)
            /\ hist' = [hist EXCEPT !.joinedAfterStop = TRUE]
       ELSE /\ IF display_mode = "curses" THEN MStep("while", mloc)
               ELSE MStep("r_begin", [mloc EXCEPT !.passes = 1])
            /\ UNCHANGED hist
    /\ UNCHANGED <<args, file, fileOps, globals, wpc, wloc, proc>>

(***************************************************************************)
(* SIGINT.  Python runs the handler in the main thread between two         *)
(* bytecodes.  With sigint_handler installed (lines 685, 787) the handler  *)
(* clears running and calls sys.exit(0); SystemExit is caught by none of   *)
(* the except clauses (lines 715, 755, 759, 807) and leaves main with exit *)
(* code 0, so the joins of lines 725 and 813 are not run.  Before          *)
(* that the default handler raises KeyboardInterrupt: inside the try of    *)
(* line 753 it is caught at line 759 (running = False; return), elsewhere  *)
(* nothing catches it.                                                     *)
(***************************************************************************)
\* Sigint with a handler that lacks the global statement of line 729 (and
\* of lines 638, 735 for the except clauses): running = False makes a local
Sigint_local ==
    /\ proc.alive /\ mpc # "finished"
    /\ ~hist.interrupted
    /\ hist' = [hist EXCEPT !.interrupted = TRUE]
    /\ MStep("finished", MainIdle)
    /\ IF handler \/ mpc \in {"wrapper", "c_load", "c_start"}
       THEN UNCHANGED proc
       ELSE proc' = [proc EXCEPT !.code = 130]
    /\ UNCHANGED <<args, file, fileOps, hosts, host_names, results, running,
                   devices_file, last_file_mtime, display_mode, handler, live,
                   wpc, wloc>>

Sigint ==
    /\ proc.alive /\ mpc # "finished"
    /\ ~hist.interrupted
    /\ hist' = [hist EXCEPT !.interrupted = TRUE]
    /\ MStep("finished", MainIdle)
    /\ IF handler
       THEN \* lines 730-732: running = False; sys.exit(0)
            /\ running' = FALSE
            /\ UNCHANGED proc
       ELSE IF mpc \in {"wrapper", "c_load", "c_start"}
       THEN \* lines 759-761: running = False; return
            /\ running' = FALSE
            /\ UNCHANGED proc
       ELSE /\ proc' = [proc EXCEPT !.code = 130]
            /\ UNCHANGED running
    /\ UNCHANGED <<args, file, fileOps, hosts, host_names, results,
                   devices_file, last_file_mtime, display_mode, handler, live,
                   wpc, wloc>>

\* the interpreter shuts down once the main thread has finished: it waits
\* for the threads that are not daemons and abandons the daemons
M_exit ==
    /\ proc.alive /\ mpc = "finished"
    /\ Daemon \/ \A w \in Workers : wpc[w] \in Dead \cup {"idle"}
    /\ proc' = [proc EXCEPT !.alive = FALSE]
    /\ UNCHANGED <<args, file, fileOps, globals, wpc, wloc, mpc, mloc, hist>>

Next ==
    \/ WriteFile \/ RemoveFile \/ Sigint
    \/ M_main \/ M_wrapper \/ M_c_load \/ M_c_start \/ M_c_while \/ M_c_getch
    \/ M_c_cleanup \/ M_load \/ M_dedupe \/ M_start \/ M_while
    \/ M_exit
    \/ R_begin \/ R_sum \/ R_row \/ R_get
    \/ \E w \in Workers :
           \/ W_while(w) \/ W_exists(w) \/ W_getmtime(w) \/ W_read(w)
           \/ W_names(w) \/ W_removed(w) \/ W_del(w) \/ W_print(w)
           \/ W_current(w) \/ W_for(w) \/ W_ping(w)

Spec == Init /\ [][Next]_vars

(***************************************************************************)
(* The prober on its own: one polling thread cycling over two hosts, each  *)
(* probe meeting any answer of the outside world.  returns = FALSE is an   *)
(* external call (gethostbyname, communicate) that never comes back.       *)
(***************************************************************************)
ProbeObs ==
    [resolves : BOOLEAN, launches : BOOLEAN, returns : BOOLEAN,
     returncode : {0, 1}, time : {None, Some(123)},
     loss : {None, Some(0), Some(500), Some(1000)}, stderr : {"", "err"}]

\* the external calls ping_host makes, in order (lines 187, 202, 203)
ping_calls(obs) ==
    IF ~obs.resolves THEN <<"gethostbyname">>
    ELSE IF ~obs.launches THEN <<"gethostbyname", "Popen">>
    ELSE <<"gethostbyname", "Popen", "communicate">>

\* lines 254-255 with any answer: neither gethostbyname (line 187) nor
\* communicate (line 203) is given a timeout, so a call that does not come
\* back leaves the thread inside ping_host
P_ping(w) ==
    /\ proc.alive /\ wpc[w] = "ping"
    /\ \E obs \in ProbeObs :
           LET host == wloc[w].current_hosts[wloc[w].i]
               p    == Some([host |-> host, obs |-> obs,
                             calls |-> ping_calls(obs)])
           IN  IF obs.returns
               THEN /\ results' = DictSet(results, host, ping_host(host, obs))
                    /\ WStep(w, "for", [wloc[w] EXCEPT !.i = @ + 1])
                    /\ hist' = [hist EXCEPT !.probe = p]
               ELSE /\ WStep(w, "blocked", wloc[w])
                    /\ hist' = [hist EXCEPT !.probe = p]
                    /\ UNCHANGED results
    /\ UNCHANGED <<args, file, fileOps, hosts, host_names, running,
                   devices_file, last_file_mtime, display_mode, handler, live, mpc,
                   mloc, proc>>

\* main() was started with -m simple -H hA hB hA and has reached its loop
\* (line 794); its polling thread is at the top of its first cycle
InitProbe ==
    /\ args = [mode |-> "simple", file |-> FALSE, hosts |-> <<"hA", "hB", "hA">>]
    /\ file = [exists |-> FALSE, readable |-> TRUE, lines |-> <<>>, mtime |-> 0]
    /\ fileOps = 0
    /\ hosts = Dedupe(args.hosts)
    /\ host_names = EmptyDict
    /\ results = EmptyDict
    /\ running = TRUE
    /\ devices_file = None
    /\ last_file_mtime = 0
    /\ display_mode = "simple"
    /\ handler = TRUE
    /\ live = [header_printed |-> FALSE, device_lines |-> 0]
    /\ wpc = [w \in Workers |-> IF w = 2 THEN "while" ELSE "idle"]
    /\ wloc = [w \in Workers |->
                  IF w = 2 THEN [NoLocals EXCEPT !.host_list = hosts]
                  ELSE NoLocals]
    /\ mpc = "while"
    /\ mloc = MainIdle
    /\ proc = [alive |-> TRUE, code |-> 0]
    /\ hist = NoHistory

NextProbe ==
    \E w \in Workers :
        \/ W_while(w) \/ W_exists(w) \/ W_current(w) \/ W_for(w) \/ P_ping(w)

SpecProbe == InitProbe /\ [][NextProbe]_vars

(***************************************************************************)
(* The renderers on their own: the render loop of main() over a fixed host *)
(* list of which every host has been probed; no polling thread is          *)
(* scheduled.  sorted(hosts, key=ip_to_int) is the same expression in      *)
(* every renderer (lines 297, 327, 363, 402, 431, 550).                    *)
(***************************************************************************)
SortHosts == {"hA", "hB", "hC", "hD", "hE", "hF", "hG", "hH"}

\* the lists of 1..n different hosts
RECURSIVE HostLists(_)
HostLists(n) ==
    IF n = 0 THEN {<<>>}
    ELSE LET shorter == HostLists(n - 1)
         IN  shorter \cup {Append(l, h) : l \in shorter, h \in SortHosts}

InitSort ==
    /\ \E m \in {"simple", "detailed", "compact"},
          l \in {x \in HostLists(MaxSortLen) :
                    Len(x) > 0 /\ Cardinality(Range(x)) = Len(x)} :
           /\ args = [mode |-> m, file |-> FALSE, hosts |-> l]
           /\ hosts = l
           /\ display_mode = m
    /\ file = [exists |-> FALSE, readable |-> TRUE, lines |-> <<>>, mtime |-> 0]
    /\ fileOps = 0
    /\ host_names = EmptyDict
    /\ results = [h \in Range(hosts) |-> ping_host(h, ObsUp)]
    /\ running = TRUE
    /\ devices_file = None
    /\ last_file_mtime = 0
    /\ handler = TRUE
    /\ live = [header_printed |-> FALSE, device_lines |-> 0]
    /\ wpc = [w \in Workers |-> IF w = 2 THEN "for" ELSE "idle"]
    /\ wloc = [w \in Workers |->
                  IF w = 2
                  THEN [NoLocals EXCEPT !.host_list = hosts,
                                        !.current_hosts = hosts,
                                        !.i = Len(hosts) + 1]
                  ELSE NoLocals]
    /\ mpc = "while"
    /\ mloc = MainIdle
    /\ proc = [alive |-> TRUE, code |-> 0]
    /\ hist = NoHistory

NextSort == M_while \/ R_begin \/ R_sum \/ R_row \/ R_get

SpecSort == InitSort /\ [][NextSort]_vars

(***************************************************************************)
(* display_results_live on its own, with its clock.  live carries, besides *)
(* header_printed and device_lines, the globals _last_display_time and     *)
(* _display_counter and now, what time.time() returns (tenths of a         *)
(* second).  Time passes between any two steps.                            *)
(***************************************************************************)
\* line 423: 0.5 seconds
LiveMinGap == 5

\* the test of line 423 left out
TooSoon_never(now, last) == FALSE

\* line 423: current_time - _last_display_time < 0.5
TooSoon(now, last) == now - last < LiveMinGap

\* the header block without line 418
LiveAfterHeader_unset ==
    [live EXCEPT !.device_lines = Len(hosts), !.last_display_time = live.now]

\* lines 403-419: the renderer's globals after the header block
LiveAfterHeader ==
    [live EXCEPT !.header_printed = TRUE, !.device_lines = Len(hosts),
                 !.last_display_time = live.now]

L_tick ==
    /\ proc.alive /\ live.now < MaxClock
    /\ live' = [live EXCEPT !.now = @ + 1]
    /\ UNCHANGED <<args, file, fileOps, hosts, host_names, results, running,
                   devices_file, last_file_mtime, display_mode, handler, wpc,
                   wloc, mpc, mloc, proc, hist>>

\* lines 391-430: the header block on the first call; later the rate limit,
\* then the rows if results holds anything (the rows and the three sums are
\* R_row, R_get and R_sum)
L_begin ==
    /\ proc.alive /\ mpc = "r_begin" /\ display_mode = "live"
    /\ IF ~live.header_printed
       THEN /\ live' = LiveAfterHeader
            /\ hist' = [hist EXCEPT !.lastWrite = Some(live.now)]
            /\ EndPass
       ELSE IF TooSoon(live.now, live.last_display_time)
       THEN /\ EndPass
            /\ UNCHANGED <<live, hist>>
       ELSE /\ live' = [live EXCEPT !.last_display_time = live.now,
                                    !.display_counter = @ + 1]
            /\ IF DOMAIN results # {}
               THEN /\ StartRows
                    /\ hist' = [hist EXCEPT !.lastWrite = Some(live.now)]
               ELSE /\ EndPass
                    /\ UNCHANGED hist
    /\ UNCHANGED <<args, file, fileOps, hosts, host_names, results, running,
                   devices_file, last_file_mtime, display_mode, handler, wpc,
                   wloc, proc>>

\* main() was started with -m live -H hA hB hA and has reached its loop; the
\* polling thread has probed nothing yet or every host
InitLive ==
    /\ args = [mode |-> "live", file |-> FALSE, hosts |-> <<"hA", "hB", "hA">>]
    /\ file = [exists |-> FALSE, readable |-> TRUE, lines |-> <<>>, mtime |-> 0]
    /\ fileOps = 0
    /\ hosts = Dedupe(args.hosts)
    /\ host_names = EmptyDict
    /\ results \in {EmptyDict, [h \in Range(hosts) |-> ping_host(h, ObsUp)]}
    /\ running = TRUE
    /\ devices_file = None
    /\ last_file_mtime = 0
    /\ display_mode = "live"
    /\ handler = TRUE
    /\ live = [header_printed |-> FALSE, device_lines |-> 0,
               last_display_time |-> 0, display_counter |-> 0, now |-> 1]
    /\ wpc = [w \in Workers |-> IF w = 2 THEN "for" ELSE "idle"]
    /\ wloc = [w \in Workers |->
                  IF w = 2
                  THEN [NoLocals EXCEPT !.host_list = hosts,
                                        !.current_hosts = hosts,
                                        !.i = Len(hosts) + 1]
                  ELSE NoLocals]
    /\ mpc = "while"
    /\ mloc = MainIdle
    /\ proc = [alive |-> TRUE, code |-> 0]
    /\ hist = NoHistory

NextLive == L_tick \/ M_while \/ L_begin \/ R_row \/ R_get \/ R_sum

SpecLive == InitLive /\ [][NextLive]_vars

(***************************************************************************)
(* The count line of display_results_simple and display_results_detailed:  *)
(* the three passes sum(1 for r in results.values() if r['status'] == s)   *)
(* with their locals up_count, down_count and error_count (mloc.counts),   *)
(* while the polling thread goes on writing results.  Every host has a     *)
(* record, so the polling thread replaces values and the dictionary keeps  *)
(* its size and its order, which is the order of hosts.                    *)
(***************************************************************************)
ObsDown == [resolves |-> TRUE, launches |-> TRUE, returncode |-> 1,
            time |-> None, loss |-> None, stderr |-> ""]

Statuses == <<"up", "down", "error">>

NoCounts == [up |-> 0, down |-> 0, error |-> 0]

\* the tables over a host list: one record per host, of any status
Tables(l) == [Range(l) -> {ObsUp, ObsDown, ObsUnresolved}]

\* lines 284, 318: if results
C_begin ==
    /\ proc.alive /\ mpc = "r_begin"
    /\ display_mode \in {"simple", "detailed"}
    /\ IF DOMAIN results = {}
       THEN EndPass /\ UNCHANGED hist
       ELSE /\ MStep("c_sum", [counts |-> NoCounts] @@
                              [mloc EXCEPT !.sum = 1,
                                  !.di_used = Cardinality(DOMAIN results),
                                  !.di_pos = 0])
            /\ hist' = [hist EXCEPT !.table = Some(results)]
    /\ UNCHANGED <<args, file, fileOps, globals, wpc, wloc, proc>>

\* lines 285-287, 319-321: the filter of the n-th generator
Counted(r, n) == r.status = Statuses[n]

\* one step of the generator inside the n-th sum(...): the next value of
\* results.values() is read and counted; after the third sum the detailed
\* renderer prints its count line (line 324), the simple one goes on to its
\* rows and prints at the end (line 312)
C_sum ==
    /\ proc.alive /\ mpc = "c_sum"
    /\ IF Cardinality(DOMAIN results) # mloc.di_used
       THEN MainRaise("RuntimeError")
       ELSE /\ IF mloc.di_pos < mloc.di_used
               THEN LET r == results[hosts[mloc.di_pos + 1]]
                        s == Statuses[mloc.sum]
                    IN  MStep("c_sum",
                              [mloc EXCEPT !.di_pos = @ + 1,
                                           !.counts[s] =
                                               IF Counted(r, mloc.sum)
                                               THEN @ + 1 ELSE @])
               ELSE IF mloc.sum < NumSums
               THEN MStep("c_sum", [mloc EXCEPT !.sum = @ + 1, !.di_pos = 0])
               ELSE MStep("r_row", [mloc EXCEPT
                                        !.sorted_hosts = RowsShown(display_mode),
                                        !.row = 1])
            /\ UNCHANGED <<proc, hist>>
    /\ UNCHANGED <<args, file, fileOps, globals, wpc, wloc>>

\* main() was started with -m simple or -m detailed and -H hA hB hA and has
\* reached its loop; the polling thread has been through its first cycle
InitCount ==
    /\ \E m \in {"simple", "detailed"} :
           /\ args = [mode |-> m, file |-> FALSE, hosts |-> <<"hA", "hB", "hA">>]
           /\ display_mode = m
    /\ file = [exists |-> FALSE, readable |-> TRUE, lines |-> <<>>, mtime |-> 0]
    /\ fileOps = 0
    /\ hosts = Dedupe(args.hosts)
    /\ host_names = EmptyDict
    /\ \E t \in Tables(hosts) :
           results = [h \in Range(hosts) |-> ping_host(h, t[h])]
    /\ running = TRUE
    /\ devices_file = None
    /\ last_file_mtime = 0
    /\ handler = TRUE
    /\ live = [header_printed |-> FALSE, device_lines |-> 0]
    /\ wpc = [w \in Workers |-> IF w = 2 THEN "while" ELSE "idle"]
    /\ wloc = [w \in Workers |->
                  IF w = 2 THEN [NoLocals EXCEPT !.host_list = hosts]
                  ELSE NoLocals]
    /\ mpc = "while"
    /\ mloc = MainIdle
    /\ proc = [alive |-> TRUE, code |-> 0]
    /\ hist = NoHistory

NextCount ==
    \/ M_while \/ C_begin \/ C_sum \/ R_row \/ R_get
    \/ \E w \in Workers :
           \/ W_while(w) \/ W_exists(w) \/ W_current(w) \/ W_for(w)
           \/ W_ping(w)

SpecCount == InitCount /\ [][NextCount]_vars

(***************************************************************************)
(* display_results_detailed on its own, with what it prints: the lines of  *)
(* one call are mloc.out, and hist.outs is the set of the outputs of the   *)
(* calls that have returned.  hosts and results do not change; the clock   *)
(* (live.now, tenths of a second) does.                                    *)
(***************************************************************************)
\* datetime.now().strftime('%H:%M:%S'): the time of day in whole seconds
Stamp(now) == now \div 10

\* lines 271-279, the latency in tenths of a millisecond (123 is 12.3 ms)
format_latency(latency) ==
    IF latency = None THEN <<"N/A">>
    ELSE IF latency[1] < 10 THEN <<"<1 ms">>
    ELSE <<latency[1], "ms">>

\* line 324: the count line
DetailCounts ==
    [kind |-> "counts", stamp |-> Stamp(live.now),
     up    |-> Cardinality({h \in DOMAIN results : results[h].status = "up"}),
     down  |-> Cardinality({h \in DOMAIN results : results[h].status = "down"}),
     error |-> Cardinality({h \in DOMAIN results : results[h].status = "error"})]

\* lines 329-343: the row of a host
DetailRow(host) ==
    LET name == IF host \in DOMAIN host_names THEN host_names[host] ELSE host
    IN  IF host \in DOMAIN results
        THEN [kind |-> "row", name |-> name, host |-> host,
              status |-> results[host].status,
              latency |-> format_latency(results[host].latency),
              packet_loss |-> <<results[host].packet_loss, "%">>]
        ELSE [kind |-> "row", name |-> name, host |-> host,
              status |-> "WAITING", latency |-> <<"N/A">>,
              packet_loss |-> <<"N/A">>]

\* line 345: print()
BlankLine == [kind |-> "blank"]

\* lines 318-327: nothing at all when results is empty; otherwise the three
\* sums, the count line and sorted(hosts, key=ip_to_int)
D_begin ==
    /\ proc.alive /\ mpc = "r_begin" /\ display_mode = "detailed"
    /\ IF DOMAIN results = {}
       THEN /\ EndPass
            /\ hist' = [hist EXCEPT !.outs = @ \cup {<<>>}]
       ELSE /\ MStep("d_row", [out |-> <<DetailCounts>>] @@
                              [mloc EXCEPT !.sorted_hosts = sorted(hosts),
                                           !.row = 1])
            /\ UNCHANGED hist
    /\ UNCHANGED <<args, file, fileOps, globals, wpc, wloc, proc>>

\* lines 328-346: one row per host, then the empty line, and the call returns
D_row ==
    /\ proc.alive /\ mpc = "d_row"
    /\ IF mloc.row <= Len(mloc.sorted_hosts)
       THEN /\ MStep("d_row",
                     [mloc EXCEPT !.out = Append(@, DetailRow(
                                                 mloc.sorted_hosts[mloc.row])),
                                  !.row = @ + 1])
            /\ UNCHANGED hist
       ELSE /\ EndPass
            /\ hist' = [hist EXCEPT
                            !.outs = @ \cup {Append(mloc.out, BlankLine)}]
    /\ UNCHANGED <<args, file, fileOps, globals, wpc, wloc, proc>>

\* main() was started with -m detailed -H hA hB hA and has reached its loop;
\* the polling thread has stored a record for none, some or all of the hosts
InitDetail ==
    /\ args = [mode |-> "detailed", file |-> FALSE,
               hosts |-> <<"hA", "hB", "hA">>]
    /\ file = [exists |-> FALSE, readable |-> TRUE, lines |-> <<>>, mtime |-> 0]
    /\ fileOps = 0
    /\ hosts = Dedupe(args.hosts)
    /\ host_names = EmptyDict
    /\ \E D \in SUBSET Range(hosts) :
           \E t \in [D -> {ObsUp, ObsDown, ObsUnresolved}] :
               results = [h \in D |-> ping_host(h, t[h])]
    /\ running = TRUE
    /\ devices_file = None
    /\ last_file_mtime = 0
    /\ display_mode = "detailed"
    /\ handler = TRUE
    /\ live = [header_printed |-> FALSE, device_lines |-> 0,
               last_display_time |-> 0, display_counter |-> 0, now |-> 1]
    /\ wpc = [w \in Workers |-> IF w = 2 THEN "ping" ELSE "idle"]
    /\ wloc = [w \in Workers |->
                  IF w = 2
                  THEN [NoLocals EXCEPT !.host_list = hosts,
                                        !.current_hosts = hosts, !.i = 1]
                  ELSE NoLocals]
    /\ mpc = "while"
    /\ mloc = MainIdle
    /\ proc = [alive |-> TRUE, code |-> 0]
    /\ hist = NoHistory

NextDetail == L_tick \/ M_while \/ D_begin \/ D_row

SpecDetail == InitDetail /\ [][NextDetail]_vars

(***************************************************************************)
(* display_results_curses on its own, with the window it writes: the frame *)
(* under construction is mloc.screen (line -> what addstr put there) for a *)
(* terminal of mloc.max_y lines, which each frame reads anew (getmaxyx).   *)
(* addstr raises curses.error when the line is outside the window, when    *)
(* the text runs into the lower right corner, and when the column is       *)
(* negative (line 536 on a terminal narrower than the time string); the    *)
(* except of line 621 ends the frame before stdscr.refresh().              *)
(***************************************************************************)
\* line 553 without the space left for the bottom line
RowFits_window(row, max_y) == row < max_y

\* line 553: if row >= max_y - 2: break
RowFits(row, max_y) == row < max_y - 2

\* lines 514-546: the title, the summary, the separators and the column
\* header on lines 0..4
HeaderLines ==
    [y \in 0..(FirstRow - 1) |->
        [kind |-> CASE y = 0 -> "title" [] y = 1 -> "summary"
                    [] y = 3 -> "header" [] OTHER -> "separator",
         host |-> ""]]

\* the curses.error leaves the loop of curses_main
FrameError_leave ==
    /\ MStep("c_cleanup", MainIdle)
    /\ hist' = [hist EXCEPT !.frameError = TRUE]

\* lines 621-623: except curses.error: pass; display_results_curses returns
FrameError ==
    /\ EndPass
    /\ hist' = [hist EXCEPT !.frameError = TRUE]

\* lines 508-550: the frame up to the rows
K_begin ==
    /\ proc.alive /\ mpc = "r_begin" /\ display_mode = "curses"
    /\ \E max_y \in 1..MaxHeight, wide \in BOOLEAN :
           IF max_y <= FirstRow \/ (~wide /\ DOMAIN results # {})
           THEN FrameError
           ELSE /\ MStep("k_row",
                         [max_y |-> max_y, wide |-> wide,
                          screen |-> HeaderLines] @@
                         [mloc EXCEPT !.sorted_hosts = sorted(hosts),
                                      !.row = FirstRow])
                /\ UNCHANGED hist
    /\ UNCHANGED <<args, file, fileOps, globals, wpc, wloc, proc>>

\* lines 552-611: one turn of the loop over sorted_hosts
K_row ==
    /\ proc.alive /\ mpc = "k_row"
    /\ LET i == mloc.row - FirstRow + 1
       IN  IF i <= Len(mloc.sorted_hosts) /\ RowFits(mloc.row, mloc.max_y)
           THEN IF mloc.row < mloc.max_y
                THEN /\ MStep("k_row",
                              [mloc EXCEPT
                                  !.screen = DictSet(@, mloc.row,
                                      [kind |-> "row",
                                       host |-> mloc.sorted_hosts[i]]),
                                  !.row = @ + 1])
                     /\ UNCHANGED hist
                ELSE FrameError
           ELSE MStep("k_end", mloc) /\ UNCHANGED hist
    /\ UNCHANGED <<args, file, fileOps, globals, wpc, wloc, proc>>

\* lines 613-619: the bottom line, when the rows left it free, and refresh;
\* hist.outs holds the last frame that was refreshed
K_end ==
    /\ proc.alive /\ mpc = "k_end"
    /\ IF mloc.row < mloc.max_y - 1 /\ mloc.wide
       THEN /\ EndPass
            /\ hist' = [hist EXCEPT !.frameError = FALSE, !.outs =
                            {[max_y |-> mloc.max_y,
                              screen |-> DictSet(mloc.screen, mloc.max_y - 1,
                                           [kind |-> "footer", host |-> ""])]}]
       ELSE IF mloc.row < mloc.max_y - 1
       THEN FrameError
       ELSE /\ EndPass
            /\ hist' = [hist EXCEPT !.frameError = FALSE, !.outs =
                            {[max_y |-> mloc.max_y, screen |-> mloc.screen]}]
    /\ UNCHANGED <<args, file, fileOps, globals, wpc, wloc, proc>>

CursesHosts == {"hA", "hB", "hC", "hD"}

\* curses_main was started with -H and one to four different hosts and has
\* reached its loop; the polling thread has stored a record for some of them
InitCurses ==
    /\ \E n \in 1..Cardinality(CursesHosts) :
           \E l \in [1..n -> CursesHosts] :
               /\ Cardinality(Range(l)) = n
               /\ args = [mode |-> "curses", file |-> FALSE, hosts |-> l]
               /\ hosts = l
    /\ file = [exists |-> FALSE, readable |-> TRUE, lines |-> <<>>, mtime |-> 0]
    /\ fileOps = 0
    /\ host_names = EmptyDict
    /\ \E D \in SUBSET Range(hosts) :
           results = [h \in D |-> ping_host(h, ObsUp)]
    /\ running = TRUE
    /\ devices_file = None
    /\ last_file_mtime = 0
    /\ display_mode = "curses"
    /\ handler = TRUE
    /\ live = [header_printed |-> FALSE, device_lines |-> 0]
    /\ wpc = [w \in Workers |-> IF w = 1 THEN "ping" ELSE "idle"]
    /\ wloc = [w \in Workers |->
                  IF w = 1
                  THEN [NoLocals EXCEPT !.host_list = hosts,
                                        !.current_hosts = hosts, !.i = 1]
                  ELSE NoLocals]
    /\ mpc = "c_while"
    /\ mloc = MainIdle
    /\ proc = [alive |-> TRUE, code |-> 0]
    /\ hist = NoHistory

NextCurses == M_c_while \/ M_c_getch \/ K_begin \/ K_row \/ K_end

SpecCurses == InitCurses /\ [][NextCurses]_vars

(***************************************************************************)
(* display_results_live with the terminal's cursor, while the polling      *)
(* thread goes through its first cycles.  hist.cursor is the line the      *)
(* cursor is on, counted from the line it was on when main began: print    *)
(* of one line moves it down by one, ESC [ n A moves it up by n.           *)
(***************************************************************************)
\* lines 395-399: "\n" + "="*80 (two lines), the title, the rule, the column
\* header and the rule
LiveHeaderLines == 6

\* lines 492-494: the separator and the summary
SummaryLines == 2

\* lines 391-435: the header block with one WAITING row per host, the
\* separator and 'Last Update: Initializing...' on the first call; later the
\* rate limit, and the move up to the first row when results holds anything
V_begin ==
    /\ proc.alive /\ mpc = "r_begin" /\ display_mode = "live"
    /\ IF ~live.header_printed
       THEN /\ live' = LiveAfterHeader
            /\ hist' = [hist EXCEPT !.cursor = @ + LiveHeaderLines
                                                 + Len(hosts) + 2]
            /\ EndPass
       ELSE IF TooSoon(live.now, live.last_display_time)
       THEN /\ EndPass
            /\ UNCHANGED <<live, hist>>
       ELSE /\ live' = [live EXCEPT !.last_display_time = live.now,
                                    !.display_counter = @ + 1]
            /\ IF DOMAIN results # {}
               THEN /\ MStep("v_row", [mloc EXCEPT
                                          !.sorted_hosts = sorted(hosts),
                                          !.row = 1])
                    /\ hist' = [hist EXCEPT
                                    !.cursor = @ - (live.device_lines + 2)]
               ELSE /\ EndPass
                    /\ UNCHANGED hist
    /\ UNCHANGED <<args, file, fileOps, hosts, host_names, results, running,
                   devices_file, last_file_mtime, display_mode, handler, wpc,
                   wloc, proc>>

\* lines 438-482: one turn of the loop; a row is printed for the hosts that
\* have a cached line (i < len(_device_lines)); then the sums begin
V_row ==
    /\ proc.alive /\ mpc = "v_row"
    /\ IF mloc.row <= Len(mloc.sorted_hosts)
       THEN /\ MStep("v_row", [mloc EXCEPT !.row = @ + 1])
            /\ hist' = [hist EXCEPT !.cursor =
                            IF mloc.row - 1 < live.device_lines
                            THEN @ + 1 ELSE @]
       ELSE /\ MStep("v_sum", [mloc EXCEPT
                                  !.sum = 1,
                                  !.di_used = Cardinality(DOMAIN results),
                                  !.di_pos = 0])
            /\ UNCHANGED hist
    /\ UNCHANGED <<args, file, fileOps, globals, wpc, wloc, proc>>

\* lines 485-496: one step of the generator inside a sum(...), which raises
\* RuntimeError when results has changed its size; after the third sum the
\* separator and the summary are printed and the call returns
V_sum ==
    /\ proc.alive /\ mpc = "v_sum"
    /\ IF Cardinality(DOMAIN results) # mloc.di_used
       THEN MainRaise("RuntimeError")
       ELSE /\ IF mloc.di_pos < mloc.di_used
               THEN /\ MStep("v_sum", [mloc EXCEPT !.di_pos = @ + 1])
                    /\ UNCHANGED hist
               ELSE IF mloc.sum < NumSums
               THEN /\ MStep("v_sum", [mloc EXCEPT
                                          !.sum = @ + 1,
                                          !.di_used = Cardinality(DOMAIN results),
                                          !.di_pos = 0])
                    /\ UNCHANGED hist
               ELSE /\ EndPass
                    /\ hist' = [hist EXCEPT !.cursor = @ + SummaryLines]
            /\ UNCHANGED proc
    /\ UNCHANGED <<args, file, fileOps, globals, wpc, wloc>>

\* main() was started with -m live -H hA hB hA and has reached its loop; the
\* polling thread is at the top of its first cycle
InitCursor ==
    /\ args = [mode |-> "live", file |-> FALSE, hosts |-> <<"hA", "hB", "hA">>]
    /\ file = [exists |-> FALSE, readable |-> TRUE, lines |-> <<>>, mtime |-> 0]
    /\ fileOps = 0
    /\ hosts = Dedupe(args.hosts)
    /\ host_names = EmptyDict
    /\ results = EmptyDict
    /\ running = TRUE
    /\ devices_file = None
    /\ last_file_mtime = 0
    /\ display_mode = "live"
    /\ handler = TRUE
    /\ live = [header_printed |-> FALSE, device_lines |-> 0,
               last_display_time |-> 0, display_counter |-> 0, now |-> 1]
    /\ wpc = [w \in Workers |-> IF w = 2 THEN "while" ELSE "idle"]
    /\ wloc = [w \in Workers |->
                  IF w = 2 THEN [NoLocals EXCEPT !.host_list = hosts]
                  ELSE NoLocals]
    /\ mpc = "while"
    /\ mloc = MainIdle
    /\ proc = [alive |-> TRUE, code |-> 0]
    /\ hist = NoHistory

NextCursor ==
    \/ L_tick \/ M_while \/ V_begin \/ V_row \/ V_sum
    \/ \E w \in Workers :
           \/ W_while(w) \/ W_exists(w) \/ W_current(w) \/ W_for(w)
           \/ W_ping(w)

SpecCursor == InitCursor /\ [][NextCursor]_vars

(***************************************************************************)
(* Specifications with fairness.                                           *)
(***************************************************************************)
\* the interpreter's shutdown is not held up for ever; nothing is assumed of
\* the polling threads, which may stay in one probe for ever
SpecMainFair == Init /\ [][Next]_vars /\ WF_vars(M_exit)

\* every polling thread is scheduled again and again and every probe returns
SpecWorkerFair ==
    Init /\ [][Next]_vars /\ \A w \in Workers : WF_vars(Worker(w))

(***************************************************************************)
(* Properties.                                                             *)
(***************************************************************************)
ReadOk == read_hosts_from_file(file).ok

\* polling thread w is in, or was ended by, a reload that took effect
Reloaded(w) ==
    \/ wpc[w] \in {"names", "removed", "del", "print"}
    \/ hist.cause[w] \in {"NameError", "KeyError"}

\* the step is one of polling thread w's steps of a reload that replaces
\* hosts (lines 117-126)
ReloadStep(w) ==
    /\ wpc[w] \in {"read", "names", "removed", "del"}
    /\ wpc'[w] \in {"names", "removed", "del", "print"}
    /\ <<wpc[w], wloc[w]>> # <<wpc'[w], wloc'[w]>>

\* C1: a reload that replaces hosts never adds or modifies an entry of
\* results and removes no entry of a host of the new hosts (a host in both
\* sets keeps its record, a new host gets none from the reload), and when
\* the reload has finished evicting, no host outside the new hosts has an
\* entry in results.
C1_ReloadEvicts ==
    [][\A w \in Workers :
         ReloadStep(w) =>
             /\ \A h \in DOMAIN results' :
                    h \in DOMAIN results /\ results'[h] = results[h]
             /\ \A h \in DOMAIN results \cap Range(hosts') :
                    h \in DOMAIN results'
             /\ wpc'[w] = "print" =>
                    DOMAIN results' \subseteq Range(hosts')]_vars

\* C2: while running is set, a polling thread that made a reload take
\* effect has not ended: it goes on to probe the new hosts.
C2_PollsAfterReload ==
    \A w \in Workers : (running /\ Reloaded(w)) => wpc[w] # "raised"

\* C3: a step of the reload check made while the file is missing,
\* unreadable or without hosts changes neither hosts, host_names nor
\* results and does not end the polling thread.
C3_ReloadCheckTolerant ==
    [][\A w \in Workers :
         (wpc[w] \in {"exists", "getmtime", "read"} /\ wpc'[w] # wpc[w]
          /\ ~ReadOk) =>
             /\ hosts' = hosts /\ host_names' = host_names
             /\ results' = results
             /\ wpc'[w] \notin Dead]_vars

\* C4: with a file-backed host list, in whatever display mode, a polling
\* thread that has finished a reload check begun after the last change of a
\* readable, non-empty file goes on with the hosts the file describes.
C4_FileChangePickedUp ==
    \A w \in Workers :
        (args.file /\ wpc[w] = "current" /\ hist.fresh[w] /\ ReadOk) =>
            Range(hosts) = Range(ParsedHosts(file.lines))

\* C5: the reload check assigns hosts only when the content parsed from the
\* file differs, as a deduplicated host list with names, from the active
\* hosts and host_names; otherwise hosts, host_names and results are
\* unchanged.
C5_SwapOnlyOnChange ==
    [][\A w \in Workers :
         (wpc[w] = "read" /\ wpc'[w] # "read" /\ ReadOk
          /\ Dedupe(ParsedHosts(file.lines)) = hosts
          /\ ParsedNames(file.lines) = host_names) =>
             /\ hosts' = hosts /\ host_names' = host_names
             /\ results' = results
             /\ wpc'[w] = "current"]_vars

\* C6: after the quit key the main thread only cleans up and finishes: it
\* enters no further loop, and it finishes with running cleared and exit
\* code 0.
C6_QuitStopsEverything ==
    hist.quit =>
        /\ mpc \in {"c_cleanup", "finished"}
        /\ mpc = "finished" => (~running /\ proc.code = 0)

\* C7: a process that ends after a SIGINT, with a polling thread started,
\* has cleared running and has run the bounded join after that.
C7_InterruptJoins ==
    (~proc.alive /\ hist.interrupted /\ \E w \in Workers : wpc[w] # "idle") =>
        (~running /\ hist.joinedAfterStop)

C9_ProcessTerminates == (~running) ~> (~proc.alive)

\* the process has ended with running cleared while a polling thread was
\* still inside a probe
C9_Witness ==
    ~running /\ ~proc.alive /\ \E w \in Workers : wpc[w] = "ping"

\* C10: no renderer is ended by an exception of its pass over results.
C10_RenderPassCompletes ==
    hist.mainError \notin {"RuntimeError", "KeyError"}

\* the probe the step records (P_ping) and whether it failed
LastProbe == hist.probe[1]

ProbeFailed(obs) ==
    \/ ~obs.resolves \/ ~obs.launches \/ obs.returncode # 0
    \/ obs.loss = Some(1000)

\* polling thread w leaves line 254 in this step
ProbeStep(w) == wpc[w] = "ping" /\ wpc'[w] # "ping"

\* C11: a probe of host h that fails (no resolution, no launch, non-zero
\* exit status or total loss) and returns stores a record with status error
\* or down under h, leaves every other entry of results as it was, and the
\* polling thread goes on with the next host of its cycle.
C11_FailedProbeContained ==
    [][\A w \in Workers :
         (ProbeStep(w) /\ LastProbe'.obs.returns
          /\ ProbeFailed(LastProbe'.obs)) =>
             LET h == wloc[w].current_hosts[wloc[w].i]
             IN  /\ LastProbe'.host = h
                 /\ DOMAIN results' = DOMAIN results \cup {h}
                 /\ results'[h].status \in {"error", "down"}
                 /\ \A k \in DOMAIN results \ {h} : results'[k] = results[k]
                 /\ wpc'[w] = "for"
                 /\ wloc'[w].i = wloc[w].i + 1
                 /\ wloc'[w].current_hosts = wloc[w].current_hosts]_vars

\* a probe that could not launch the check has been stored as an error while
\* the record of another host, stored before, shows it up
C11_Witness ==
    \E w \in Workers :
        /\ wpc[w] = "for" /\ hist.probe # None
        /\ LastProbe.obs.resolves /\ ~LastProbe.obs.launches
        /\ LastProbe.host \in DOMAIN results
        /\ results[LastProbe.host].status = "error"
        /\ \E k \in DOMAIN results \ {LastProbe.host} :
               results[k].status = "up"

\* C12: no record in results has packet_loss 100.0 with a status other than
\* down or error.
C12_FullLossNotUp ==
    \A h \in DOMAIN results :
        results[h].packet_loss = 1000 => results[h].status \in {"down", "error"}

\* C13: a record in results carries a latency only when its status is up.
C13_LatencyOnlyWhenUp ==
    \A h \in DOMAIN results :
        results[h].latency # None => results[h].status = "up"

\* C14: after a probe whose name resolution failed, the record of the host
\* has status error, the message 'Cannot resolve hostname', no latency and
\* the default packet_loss 100.0, and Popen was not called, whatever the
\* check would have answered.
C14_UnresolvedIsError ==
    (hist.probe # None /\ LastProbe.obs.returns /\ ~LastProbe.obs.resolves) =>
        LET r == results[LastProbe.host]
        IN  /\ r.status = "error"
            /\ r.message = "Cannot resolve hostname"
            /\ r.latency = None
            /\ r.packet_loss = 1000
            /\ LastProbe.calls = <<"gethostbyname">>

\* a probe whose name resolution failed has been stored although the check
\* would have exited 0 with a time and no loss
C14_Witness ==
    /\ hist.probe # None /\ LastProbe.obs.returns /\ ~LastProbe.obs.resolves
    /\ LastProbe.obs.launches /\ LastProbe.obs.returncode = 0
    /\ LastProbe.obs.time # None /\ LastProbe.obs.loss = Some(0)
    /\ results[LastProbe.host].status = "error"

\* C15: no polling thread stays inside a probe whose resolution or check
\* does not come back: the probe ends with a record.
C15_ProbeBounded ==
    \A w \in Workers : wpc[w] # "blocked"

\* C16: every assignment of hosts, by the initial load or by a reload, leaves
\* a list that holds no host twice, each host at the place of its first
\* occurrence (the raw load of lines 764-775, which line 784 deduplicates
\* before any thread is started from it, is not counted).
C16_HostsDeduplicated ==
    [][(hosts' # hosts /\ mpc' # "dedupe") => hosts' = Dedupe(hosts')]_vars

\* the hosts shaped a.b.c.d and, for each, (a<<24)+(b<<16)+(c<<8)+d
IpShaped == {"hA", "hB", "hD", "hG", "hH"}

NumericKey(h) ==
    CASE h = "hA" -> 167772162
      [] h = "hB" -> 167772161
      [] h = "hD" -> 167772170
      [] h = "hG" -> 16777472
      [] h = "hH" -> 16777472

\* a has to be displayed before b
Before(a, b) ==
    /\ a \in IpShaped
    /\ b \in IpShaped => NumericKey(a) < NumericKey(b)

SameKey(a, b) == ~Before(a, b) /\ ~Before(b, a)

Pos(h, l) == CHOOSE i \in 1..Len(l) : l[i] = h

\* how many rows the renderer of a mode draws at most
Shown(mode, n) ==
    LET cap == CASE mode = "simple" -> SimpleShown
                 [] mode = "compact" -> CompactShown
                 [] OTHER -> n
    IN  IF n < cap THEN n ELSE cap

\* C17: the rows a renderer goes through are the first hosts of hosts in
\* display order: a.b.c.d hosts ascending by (a<<24)+(b<<16)+(c<<8)+d, every
\* other host after them, hosts with equal keys in the order of hosts.
C17_DisplayOrder ==
    mpc \in {"r_row", "r_get"} =>
        LET S == mloc.sorted_hosts
            H == hosts
        IN  /\ Len(S) = Shown(display_mode, Len(H))
            /\ Range(S) \subseteq Range(H)
            /\ Cardinality(Range(S)) = Len(S)
            /\ \A i, j \in 1..Len(S) :
                   i < j => /\ ~Before(S[j], S[i])
                            /\ SameKey(S[i], S[j]) => Pos(S[i], H) < Pos(S[j], H)
            /\ \A h \in Range(H) \ Range(S), i \in 1..Len(S) :
                   /\ ~Before(h, S[i])
                   /\ SameKey(h, S[i]) => Pos(S[i], H) < Pos(h, H)

\* the detailed renderer goes through srv, 10.0.0.10, db, 10.0.0.2 as
\* 10.0.0.2, 10.0.0.10, srv, db
C17_Witness ==
    /\ mpc = "r_row" /\ display_mode = "detailed"
    /\ hosts = <<"hC", "hD", "hF", "hA">>
    /\ mloc.sorted_hosts = <<"hA", "hD", "hC", "hF">>

\* the step is a call of display_results_live
LiveCall ==
    /\ mpc = "r_begin" /\ display_mode = "live"
    /\ mpc' \in {"while", "r_row"}

\* C18: the first call of display_results_live prints the header block
\* (header_printed set, one line per host cached) and draws no data row,
\* whatever results holds; no later call runs the header block, and
\* header_printed is never cleared.  (A later call rewrites the row of a
\* host without a record in place, line 477; that is the rewrite of a row,
\* not the header block.)
C18_HeaderOnce ==
    [][/\ (LiveCall /\ ~live.header_printed) =>
            /\ live'.header_printed
            /\ live'.device_lines = Len(hosts)
            /\ mpc' = "while"
       /\ (LiveCall /\ live.header_printed) =>
            live'.device_lines = live.device_lines
       /\ live.header_printed => live'.header_printed]_vars

\* the header block has run while results held records, and a later call
\* is rewriting the rows
C18_Witness ==
    /\ display_mode = "live" /\ live.header_printed /\ mpc = "r_row"
    /\ live.display_counter = 1 /\ DOMAIN results # {}

\* the call writes to the screen: the header block, or the rows
LiveWrites == ~live.header_printed \/ mpc' = "r_row"

\* C19: a call of display_results_live that writes to the screen comes at
\* least 0.5 s after the last call that wrote, and a call made less than
\* 0.5 s after the last write writes nothing and changes neither
\* _last_display_time nor _display_counter nor the cached lines.
C19_RateLimited ==
    [][(LiveCall /\ hist.lastWrite # None) =>
           /\ LiveWrites => live.now - hist.lastWrite[1] >= 5
           /\ live.now - hist.lastWrite[1] < 5 =>
                  /\ live' = live
                  /\ mpc' = "while"
                  /\ hist'.lastWrite = hist.lastWrite]_vars

\* a call has rewritten the rows a second time, exactly 0.5 s after the
\* first rewrite
C19_Witness ==
    /\ display_mode = "live" /\ mpc = "r_row" /\ live.display_counter = 2
    /\ hist.lastWrite = Some(live.now) /\ live.now = 11

\* the step is the return of display_results_simple to main's loop
SimpleReturns ==
    /\ display_mode = "simple"
    /\ mpc \in {"r_begin", "r_sum", "r_row", "r_get"}
    /\ mpc' = "while"

\* the step runs line 312, print(status_line): the loop of line 298 is over
SimplePrints ==
    /\ display_mode = "simple" /\ mpc = "r_row"
    /\ mloc.row > Len(mloc.sorted_hosts)
    /\ mpc' = "while"

\* C20: every call of display_results_simple that returns has printed its
\* one status line, whatever results holds (the empty dictionary of before
\* the first probe included), and has changed none of the globals.
C20_SummaryLineEveryCall ==
    [][SimpleReturns => (SimplePrints /\ UNCHANGED globals)]_vars

\* how many records of a table have the status
CountOf(t, status) == Cardinality({h \in DOMAIN t : t[h].status = status})

\* the step prints the count line: line 324 after the third sum, line 312
\* after the loop over the rows
PrintsCounts ==
    \/ /\ display_mode = "detailed" /\ mpc = "c_sum" /\ mpc' = "r_row"
    \/ /\ display_mode = "simple" /\ mpc = "r_row" /\ mpc' = "while"
       /\ "counts" \in DOMAIN mloc

\* C21: the count line printed by display_results_simple and
\* display_results_detailed shows, for up, down and error, the number of
\* records of results with that status, results being read as it is when
\* the line is printed or as it was when the call began.
C21_CountLineExact ==
    [][PrintsCounts =>
           \E t \in {results, hist.table[1]} :
               \A i \in 1..NumSums :
                   mloc.counts[Statuses[i]] = CountOf(t, Statuses[i])]_vars

\* C22: with hosts and results unchanged, every call of
\* display_results_detailed prints the same lines, whenever it is made.
C22_DetailedIdempotent == Cardinality(hist.outs) <= 1

\* the lines of the full table: a row per host of hosts in display order,
\* WAITING for a host without a record, then the counts
IsFullTable(o) ==
    LET S == sorted(hosts)
        n == Len(S)
        rows == {i \in 1..Len(o) : o[i].kind = "row"}
    IN  /\ Len(o) > n /\ rows = 1..n
        /\ \A i \in 1..n :
               /\ o[i].host = S[i]
               /\ o[i].status = IF S[i] \in DOMAIN results
                                THEN results[S[i]].status ELSE "WAITING"
        /\ o[n + 1].kind = "counts"

\* C23: every call of display_results_detailed prints one row per host of
\* hosts, in display order, a host without a record as WAITING, and after
\* the rows the count line; also while results is still empty.
C23_DetailedFullTable == \A o \in hist.outs : IsFullTable(o)

\* the lines of a window that hold the row of a host
HostRows(screen) == {y \in DOMAIN screen : screen[y].kind = "row"}

\* the host rows of a window of max_y lines are the rows of the first hosts
\* of the display order, one line each from line 5 on, above the bottom
\* line and the line before it
RowsInBounds(screen, max_y) ==
    LET S == sorted(hosts)
        R == HostRows(screen)
    IN  /\ \A y \in R : /\ FirstRow <= y /\ y < max_y - 1
                        /\ y - FirstRow + 1 <= Len(S)
                        /\ screen[y].host = S[y - FirstRow + 1]
                        /\ \A z \in FirstRow..y : z \in R
        /\ \A y \in DOMAIN screen : y < max_y

FrameFails ==
    /\ display_mode = "curses"
    /\ \/ mpc = "r_begin" /\ mpc' # "k_row"
       \/ mpc = "k_end" /\ mloc.row < mloc.max_y - 1 /\ ~mloc.wide

\* C25: a frame of display_results_curses that ends in a curses.error
\* changes neither running, hosts nor results, leaves the polling threads
\* and the process as they are, and the loop of curses_main goes on (with
\* the regular frame after a forced one, or with the next test of running).
C25_FrameErrorSwallowed ==
    [][FrameFails =>
           /\ running' = running /\ hosts' = hosts /\ results' = results
           /\ host_names' = host_names
           /\ wpc' = wpc /\ wloc' = wloc /\ proc' = proc
           /\ mpc' = IF mloc.passes > 1 THEN "r_begin" ELSE "c_while"]_vars

\* after a frame that ended in a curses.error the loop of curses_main has
\* come round to the next frame and is writing its rows
C25_Witness ==
    /\ hist.frameError /\ running /\ mpc = "k_row"
    /\ mloc.row > FirstRow /\ hist.outs = {}

\* curses mode was asked for and main has fallen back to live mode
FellBack == args.mode = "curses" /\ display_mode = "live"

InLoop == mpc \in {"while", "r_begin", "r_sum", "r_row", "r_get"}

\* C26: when wrapper(curses_main) fails with a curses.error, main goes on in
\* live mode and the process stays alive with its exit code untouched; in
\* the render loop that follows, hosts is the deduplicated host list of the
\* command line (or of the file as it was loaded), the polling thread of
\* main is the only one that was ever started, and it runs for as long as
\* running is set.
C26_FallsBackToLive ==
    /\ [][(mpc = "wrapper" /\ mpc' # "wrapper" /\ ~hist'.interrupted) =>
              /\ mpc' = "c_load" \/ (mpc' = "load" /\ display_mode' = "live")
              /\ proc' = proc /\ running' = running]_vars
    /\ [](FellBack =>
              /\ wpc[1] = "idle"
              /\ InLoop =>
                     /\ wpc[2] # "idle"
                     /\ running => wpc[2] \notin Dead
                     /\ hosts # <<>>
                     /\ ~args.file => hosts = Dedupe(args.hosts)
                     /\ (args.file /\ fileOps = 0) =>
                            hosts = Dedupe(ParsedHosts(file.lines)))

\* after the fallback the live renderer is rewriting its rows while the
\* polling thread of main is inside a probe
C26_Witness ==
    /\ FellBack /\ mpc = "r_row" /\ live.header_printed
    /\ wpc = <<"idle", "ping">> /\ DOMAIN results # {}

\* the polling threads that have been started and have not ended
AliveWorkers == {w \in Workers : wpc[w] \notin Dead \cup {"idle"}}

\* C27: while the process lives at most one polling thread is alive,
\* whichever way the main thread went (main's modes, curses_main, the
\* return from curses_main, the fallback to live mode), and results changes
\* only in a step of a polling thread.
C27_SingleWriter ==
    /\ [](proc.alive => Cardinality(AliveWorkers) <= 1)
    /\ [][results' # results => (mpc' = mpc /\ mloc' = mloc)]_vars

\* the main thread is inside a renderer, reading hosts, host_names, results
InRender == mpc \in {"r_begin", "r_sum", "r_row", "r_get"}

\* C28: the assignment of hosts, the assignment of host_names and the
\* eviction of a reload are one step for a renderer: while the main thread
\* is inside a renderer no polling thread is between the assignment of
\* hosts and the end of the eviction, and every key of results is a host of
\* hosts.
C28_ReloadAtomic ==
    InRender =>
        /\ \A w \in Workers : wpc[w] \notin {"names", "removed", "del"}
        /\ DOMAIN results \subseteq Range(hosts)

\* polling thread w is inside the for loop of a cycle
InCycle(w) == wpc[w] \in {"for", "ping"}

\* C29: during a cycle the list a polling thread goes through is hosts as
\* the reload check of that cycle left it, hosts is not replaced before the
\* cycle is over, and the list holds every host once; each probe is of the
\* next host of the list, in the order of hosts, and stores its record.
C29_CycleInHostsOrder ==
    /\ [](\A w \in Workers :
              InCycle(w) =>
                  /\ wloc[w].current_hosts = hosts
                  /\ Cardinality(Range(hosts)) = Len(hosts))
    /\ [][\A w \in Workers :
              ProbeStep(w) =>
                  /\ wloc'[w].i = wloc[w].i + 1
                  /\ wloc'[w].current_hosts = wloc[w].current_hosts
                  /\ wloc[w].current_hosts[wloc[w].i] \in DOMAIN results']_vars

\* the first line of the file that names host h
FirstLine(lines, h) ==
    LET e == EntryLines(lines)
    IN  e[CHOOSE i \in 1..Len(e) :
              e[i].host = h /\ \A j \in 1..(i - 1) : e[j].host # h]

\* C30: after the host list was loaded from the file, the display name of a
\* host that stands on several lines is the name of its first line.
C30_FirstNameWins ==
    (args.file /\ fileOps = 0 /\ mpc \in {"c_start", "dedupe", "start"}) =>
        \A h \in Range(hosts) :
            IF FirstLine(file.lines, h).kind = "named"
            THEN /\ h \in DOMAIN host_names
                 /\ host_names[h] = FirstLine(file.lines, h).name
            ELSE h \notin DOMAIN host_names

\* the step is a SIGINT that the program handles: sigint_handler is
\* installed, or the main thread is inside the try of line 753
HandledSigint ==
    /\ ~hist.interrupted /\ hist'.interrupted
    /\ handler \/ mpc \in {"wrapper", "c_load", "c_start"}

\* C31: running is cleared by every handled SIGINT, every step that changes
\* running clears it, and once cleared it is never set again.
C31_StopFlagSetOnce ==
    [][/\ HandledSigint => ~running'
       /\ running' # running => ~running'
       /\ ~running => ~running']_vars

\* running was cleared by a SIGINT and a polling thread has seen it at its
\* while and returned
C31_Witness ==
    /\ ~running /\ hist.interrupted
    /\ \E w \in Workers : wpc[w] = "returned"

\* C32: every record in results has status up, down or error, never the
\* 'unknown' ping_host starts from, and the three counts a renderer prints
\* add up to the number of entries of results.
C32_CountsAddUp ==
    /\ [](\A h \in DOMAIN results :
              results[h].status \in {"up", "down", "error"})
    /\ [][PrintsCounts =>
              mloc.counts.up + mloc.counts.down + mloc.counts.error
                  = Cardinality(DOMAIN results)]_vars

\* the line just below the summary line of the block the header call printed
BelowSummary == LiveHeaderLines + live.device_lines + 2

\* C33: once the header block is printed, the cursor is on the line just
\* below the summary line whenever display_results_live is not running (so
\* a call that moved it up by the number of cached rows plus two has written
\* as many lines), a call rewrites no more rows than were cached, and a call
\* that finds results empty does not move the cursor.
C33_LiveCursor ==
    /\ [](live.header_printed =>
              /\ mpc \notin {"v_row", "v_sum"} => hist.cursor = BelowSummary
              /\ hist.cursor >= BelowSummary - (live.device_lines + 2)
              /\ hist.cursor <= BelowSummary)
    /\ [][(mpc = "r_begin" /\ DOMAIN results = {}
           /\ live.header_printed) => hist'.cursor = hist.cursor]_vars

====
